---- MODULE Spec2Model ----
(***************************************************************************)
(* Model of kv_pet's CSV store (src/src/kv_pet/csv_store.py) together with *)
(* the Listing record it persists (src/src/kv_pet/parser.py) and the       *)
(* column schema (src/src/kv_pet/config.py).                               *)
(*                                                                         *)
(* The CSV file is modelled as what the csv module makes of it: a file     *)
(* that exists or not, its header line (a sequence of column names) and    *)
(* its rows, each row giving a string for every column of the header.      *)
(* In-memory Python values are modelled as typed cells                     *)
(* [t |-> type name, v |-> text], so that the int 100 and the str "100"    *)
(* are different values, as they are for Python's ==.                      *)
(*                                                                         *)
(* The extractor (KvParser and the normalizers of parser.py) is a set of   *)
(* pure functions; `parsed` holds the latest call of one of them: the      *)
(* function, its input and what it returned.  Text handed to the extractor *)
(* is modelled as a sequence of symbols, a symbol being one character or a *)
(* literal the patterns of the code look for as a whole (".html", "id=").  *)
(*                                                                         *)
(* `merging` holds two callers of merge_listings that work on one store    *)
(* path at the same time, each with its position in the call and its local *)
(* variables.  `search` holds a run of the search command of               *)
(* src/src/kv_pet/cli.py: its position in cmd_search, its local variables  *)
(* and the history of the pages it fetched and the batches it merged.      *)
(***************************************************************************)
EXTENDS Integers, Sequences, FiniteSets, TLC

VARIABLES csv, clock, calls, last, inserted_at, parsed, merging, search

vars == <<csv, clock, calls, last, inserted_at, parsed, merging, search>>

(***************************************************************************)
(* Bounds of the model.                                                    *)
(***************************************************************************)
MaxCalls == 2
MaxBatch == 2
MaxTime == 2
MaxParts == 4
MaxBlocks == 3
MaxElements == 2
MaxClasses == 2
MaxPages == 3

(***************************************************************************)
(* Python values.                                                          *)
(***************************************************************************)
None == [t |-> "NoneType", v |-> ""]
PyStr(s) == [t |-> "str", v |-> s]
PyInt(s) == [t |-> "int", v |-> s]

\* datetime.utcnow().isoformat(): the text of clock reading n.
isoformat(n) == "T" \o ToString(n)

\* str(self.is_active).lower()
bool_lower(b) == IF b THEN "true" ELSE "false"

\* The stamp KvParser puts into first_seen/last_seen of the listings it builds.
parser_now == "P0"

CSV_COLUMNS ==
  << "id", "url", "title", "deal_type", "price", "price_per_m2", "area_m2",
     "rooms", "floor", "total_floors", "location", "county", "city",
     "district", "property_type", "build_year", "condition", "first_seen",
     "last_seen", "is_active" >>

\* A Listing: the dataclass with its defaults, the fields the model varies
\* given explicitly.
Listing(id, title, price, condition, is_active, status, stamp) ==
  [ id |-> id, url |-> "https://www.kv.ee/" \o id \o ".html", title |-> title,
    deal_type |-> "sale", price |-> price, price_per_m2 |-> None,
    area_m2 |-> None, rooms |-> None, floor |-> None, total_floors |-> None,
    location |-> None, county |-> None, city |-> None, district |-> None,
    property_type |-> None, build_year |-> None, condition |-> condition,
    building_material |-> None, energy_certificate |-> None,
    first_seen |-> stamp, last_seen |-> stamp, is_active |-> is_active,
    status |-> status ]

to_dict(self) ==
  [ id |-> PyStr(self.id),
    url |-> PyStr(self.url),
    title |-> PyStr(self.title),
    deal_type |-> PyStr(self.deal_type),
    price |-> self.price,
    price_per_m2 |-> self.price_per_m2,
    area_m2 |-> self.area_m2,
    rooms |-> self.rooms,
    floor |-> self.floor,
    total_floors |-> self.total_floors,
    location |-> self.location,
    county |-> self.county,
    city |-> self.city,
    district |-> self.district,
    property_type |-> self.property_type,
    build_year |-> self.build_year,
    condition |-> self.condition,
    building_material |-> self.building_material,
    energy_certificate |-> self.energy_certificate,
    first_seen |-> self.first_seen,
    last_seen |-> self.last_seen,
    is_active |-> PyStr(bool_lower(self.is_active)),
    status |-> self.status ]

(***************************************************************************)
(* The listings the callers hand to the store.                             *)
(***************************************************************************)
\* The ids of the model in Python's str order (code points): "" < "10" < "9".
STR_ORDER == << "", "10", "9" >>

Listings ==
  { Listing("10", "A", PyInt("100"), PyStr("good"), TRUE, None, None),
    Listing("10", "", None, PyStr("None"), FALSE, PyStr("reserved"), PyStr(parser_now)),
    Listing("9", "B", None, PyStr("good"), TRUE, None, PyStr(parser_now)),
    Listing("", "A", None, None, TRUE, None, None) }

RECURSIVE SeqsUpTo(_, _)
SeqsUpTo(S, n) ==
  IF n = 0 THEN { <<>> }
  ELSE LET shorter == SeqsUpTo(S, n - 1)
       IN  shorter \cup { Append(s, x) : s \in shorter, x \in S }

Batches == SeqsUpTo(Listings, MaxBatch)

(***************************************************************************)
(* Python dicts: functions from keys to values.                            *)
(***************************************************************************)
EmptyDict == << >>

dict_set(d, k, val) ==
  [ x \in (DOMAIN d) \cup {k} |-> IF x = k THEN val ELSE d[x] ]

dict_get(d, k, default) == IF k \in DOMAIN d THEN d[k] ELSE default

(***************************************************************************)
(* The file at csv_path.                                                   *)
(***************************************************************************)
\* No file at the path.
NoFile == [ exists |-> FALSE, header |-> << >>, rows |-> << >> ]

Range(seq) == { seq[i] : i \in 1..Len(seq) }

(***************************************************************************)
(* CsvStore.read_all                                                       *)
(***************************************************************************)
\* csv.DictReader: the row as a dict from the header's names to str values
\* (None for a name the line has no cell for).
dict_row(header, line) ==
  [ k \in Range(header) |-> IF k \in DOMAIN line THEN PyStr(line[k]) ELSE None ]

\* "if listing_id:" is false for None and for the empty string.
truthy(value) == value # None /\ value # PyStr("")

\* The loop over the reader's rows, from row i on.
RECURSIVE read_rows(_, _, _)
read_rows(listings, file, i) ==
  IF i > Len(file.rows) THEN listings
  ELSE LET row == dict_row(file.header, file.rows[i])
           listing_id == dict_get(row, "id", None)
       IN  IF truthy(listing_id)
           THEN read_rows(dict_set(listings, listing_id.v, row), file, i + 1)
           ELSE read_rows(listings, file, i + 1)

read_all(file) ==
  IF ~file.exists THEN EmptyDict
  ELSE read_rows(EmptyDict, file, 1)

(***************************************************************************)
(* CsvStore._merge_row                                                     *)
(***************************************************************************)
\* (variant: the null-marker "None" is taken for a value)
present_without_marker(new_value) ==
  new_value # None /\ new_value # PyStr("")

\* "new_value is not None and new_value != '' and new_value != 'None'"
present(new_value) ==
  new_value # None /\ new_value # PyStr("") /\ new_value # PyStr("None")

\* (variant: first_seen is merged like any other field)
merge_row_first_seen_merged(old, new, now) ==
  [ key \in (DOMAIN old) \cup
            { k \in DOMAIN new : k = "last_seen" \/ present(new[k]) } |->
      IF key \in DOMAIN new
      THEN IF key = "last_seen" THEN PyStr(now)
           ELSE IF present(new[key]) THEN new[key] ELSE old[key]
      ELSE old[key] ]

\* (variant: last_seen is merged like any other field)
merge_row_last_seen_merged(old, new, now) ==
  [ key \in (DOMAIN old) \cup
            { k \in DOMAIN new : k # "first_seen" /\ present(new[k]) } |->
      IF key \in DOMAIN new /\ key # "first_seen"
      THEN IF present(new[key]) THEN new[key] ELSE old[key]
      ELSE old[key] ]

\* (variant: first_seen takes the call's time, last_seen is left as stored)
merge_row_stamps_swapped(old, new, now) ==
  [ key \in (DOMAIN old) \cup
            { k \in DOMAIN new : k # "last_seen" /\ (k = "first_seen" \/ present(new[k])) } |->
      IF key \in DOMAIN new /\ key # "last_seen"
      THEN IF key = "first_seen" THEN PyStr(now)
           ELSE IF present(new[key]) THEN new[key] ELSE old[key]
      ELSE old[key] ]

\* (variant: a stored is_active is kept, like first_seen)
merge_row_keeps_is_active(old, new, now) ==
  [ key \in (DOMAIN old) \cup
            { k \in DOMAIN new : k # "first_seen" /\ (k = "last_seen" \/ present(new[k])) } |->
      IF key \in DOMAIN new /\ key # "first_seen"
         /\ ~(key = "is_active" /\ key \in DOMAIN old)
      THEN IF key = "last_seen" THEN PyStr(now)
           ELSE IF present(new[key]) THEN new[key] ELSE old[key]
      ELSE old[key] ]

merge_row(old, new, now) ==
  [ key \in (DOMAIN old) \cup
            { k \in DOMAIN new : k # "first_seen" /\ (k = "last_seen" \/ present(new[k])) } |->
      IF key \in DOMAIN new /\ key # "first_seen"
      THEN IF key = "last_seen" THEN PyStr(now)
           ELSE IF present(new[key]) THEN new[key] ELSE old[key]
      ELSE old[key] ]

(***************************************************************************)
(* CsvStore._write_all                                                     *)
(***************************************************************************)
\* sorted(listings.keys())
\* (variant: the ids in the order of the numbers they spell)
sorted_by_number(keys) == SelectSeq(<< "", "9", "10" >>, LAMBDA k : k \in keys)

sorted(keys) == SelectSeq(STR_ORDER, LAMBDA k : k \in keys)

\* What csv.DictWriter writes for one cell: "" for None (the "cleaned" row)
\* and for a missing key (restval), str(value) otherwise.
csv_text(row, col) ==
  LET cell == dict_get(row, col, PyStr(""))
  IN  IF cell = None THEN "" ELSE cell.v

write_all(listings) ==
  LET order == sorted(DOMAIN listings)
  IN  [ exists |-> TRUE,
        header |-> CSV_COLUMNS,
        rows |-> [ i \in 1..Len(order) |->
                     [ col \in Range(CSV_COLUMNS) |-> csv_text(listings[order[i]], col) ] ] ]

\* The file when _write_all stops with an error after open(csv_path, "w")
\* has truncated it and `lines` lines (the header first) have been written.
write_all_stopped(listings, lines) ==
  LET whole == write_all(listings)
  IN  IF lines = 0 THEN [ exists |-> TRUE, header |-> << >>, rows |-> << >> ]
      ELSE [ whole EXCEPT !.rows = SubSeq(whole.rows, 1, lines - 1) ]

(***************************************************************************)
(* CsvStore.merge_listings                                                 *)
(***************************************************************************)
\* (variant: the listing's own stamps are stored)
new_record_unstamped(new_data, now) == new_data

\* The record stored for an id that is new: new_data with both stamps set.
new_record(new_data, now) ==
  [new_data EXCEPT !["first_seen"] = PyStr(now), !["last_seen"] = PyStr(now)]

\* The loop over new_listings, from element i on; acc carries the loop's
\* variables existing, added, updated, unchanged and seen_ids.
RECURSIVE merge_loop(_, _, _, _)
merge_loop(acc, new_listings, i, now) ==
  IF i > Len(new_listings) THEN acc
  ELSE
    LET listing == new_listings[i]
        new_data == to_dict(listing)
        seen == acc.seen_ids \cup {listing.id}
    IN  IF listing.id \in DOMAIN acc.existing
        THEN LET old_data == acc.existing[listing.id]
                 merged == merge_row(old_data, new_data, now)
             IN  IF merged # old_data
                 THEN merge_loop([acc EXCEPT !.existing = dict_set(@, listing.id, merged),
                                             !.updated = @ + 1,
                                             !.seen_ids = seen],
                                 new_listings, i + 1, now)
                 ELSE merge_loop([acc EXCEPT !.unchanged = @ + 1, !.seen_ids = seen],
                                 new_listings, i + 1, now)
        ELSE merge_loop([acc EXCEPT
                           !.existing =
                              dict_set(@, listing.id, new_record(new_data, now)),
                           !.added = @ + 1,
                           !.seen_ids = seen],
                        new_listings, i + 1, now)

\* (variant: the flip to inactive leaves last_seen alone)
mark_missing_keeps_last_seen(existing, seen_ids, now, mark_missing_inactive) ==
  IF ~mark_missing_inactive THEN existing
  ELSE [ listing_id \in DOMAIN existing |->
           LET data == existing[listing_id]
           IN  IF listing_id \notin seen_ids
                  /\ dict_get(data, "is_active", None) = PyStr("true")
               THEN [data EXCEPT !["is_active"] = PyStr("false")]
               ELSE data ]

\* (variant: missing records are marked whatever the flag says)
mark_missing_always(existing, seen_ids, now, mark_missing_inactive) ==
  [ listing_id \in DOMAIN existing |->
      LET data == existing[listing_id]
      IN  IF listing_id \notin seen_ids
             /\ dict_get(data, "is_active", None) = PyStr("true")
          THEN [data EXCEPT !["is_active"] = PyStr("false"),
                            !["last_seen"] = PyStr(now)]
          ELSE data ]

\* (variant: missing records are dropped instead of marked)
mark_missing_drops(existing, seen_ids, now, mark_missing_inactive) ==
  IF ~mark_missing_inactive THEN existing
  ELSE [ listing_id \in { k \in DOMAIN existing : k \in seen_ids } |->
           existing[listing_id] ]

\* "if mark_missing_inactive:" and the loop under it.
mark_missing(existing, seen_ids, now, mark_missing_inactive) ==
  IF ~mark_missing_inactive THEN existing
  ELSE [ listing_id \in DOMAIN existing |->
           LET data == existing[listing_id]
           IN  IF listing_id \notin seen_ids
                  /\ dict_get(data, "is_active", None) = PyStr("true")
               THEN [data EXCEPT !["is_active"] = PyStr("false"),
                                 !["last_seen"] = PyStr(now)]
               ELSE data ]

\* The whole call: what is handed to _write_all and the returned counts.
merge_listings(file, new_listings, now, mark_missing_inactive) ==
  LET start == [ existing |-> read_all(file), added |-> 0, updated |-> 0,
                 unchanged |-> 0, seen_ids |-> {} ]
      done == merge_loop(start, new_listings, 1, now)
  IN  [ written |-> write_all(mark_missing(done.existing, done.seen_ids, now,
                                           mark_missing_inactive)),
        result |-> << done.added, done.updated, done.unchanged >> ]

(***************************************************************************)
(* CsvStore.get_stats                                                      *)
(***************************************************************************)
get_stats(file) ==
  LET listings == read_all(file)
      active == Cardinality({ id \in DOMAIN listings :
                               dict_get(listings[id], "is_active", None) = PyStr("true") })
  IN  [ total |-> Cardinality(DOMAIN listings),
        active |-> active,
        inactive |-> Cardinality(DOMAIN listings) - active ]

(***************************************************************************)
(* The store as a state machine.  `csv` is the file; `last` is the call a   *)
(* caller has made and is still looking at (its arguments, the file as it  *)
(* was before the call, the returned counts); `calls` counts the calls.    *)
(* `clock` is the latest reading of the wall clock: successive readings    *)
(* never decrease, and two calls may read the same value.                  *)
(***************************************************************************)
NoCall ==
  [ op |-> "none", before |-> NoFile,
    new_listings |-> << >>, now |-> "", mark_missing_inactive |-> FALSE,
    result |-> << 0, 0, 0 >>, again |-> FALSE ]

\* No extractor call has been made or its result has been dropped.
NoParse == [ op |-> "none", input |-> << >>, result |-> << >> ]

\* The callers of merge_listings that run side by side on one store path.
Writers == { "w1", "w2" }

\* No such caller has started: for every writer its position in
\* merge_listings and the call's local variables, then the reads and writes
\* of the file in the order they happened and the file the writers found.
NoMerging ==
  [ writers |-> [ w \in Writers |->
                    [ pc |-> "idle", new_listings |-> << >>,
                      mark_missing_inactive |-> FALSE, existing |-> EmptyDict,
                      now |-> "", result |-> << 0, 0, 0 >> ] ],
    steps |-> << >>,
    at_start |-> NoFile ]

\* SearchCriteria(...) as cmd_search builds it: an Optional int is << >> for
\* None and << n >> for n; page keeps its default.
SearchCriteria(deal_type, price, rooms, area) ==
  [ deal_type |-> deal_type, price_min |-> price[1], price_max |-> price[2],
    rooms_min |-> rooms[1], rooms_max |-> rooms[2],
    area_min |-> area[1], area_max |-> area[2], page |-> 1 ]

\* No search command is running: the position in cmd_search, its criteria
\* and local variables, then the pages fetched and the batches handed to
\* merge_listings so far, the return code and the file the command found.
NoSearch ==
  [ pc |-> "idle",
    criteria |-> SearchCriteria("sale", << << >>, << >> >>, << << >>, << >> >>,
                                << << >>, << >> >>),
    errors |-> << >>, dry_run |-> FALSE, pages |-> 0, page |-> 0,
    all_listings |-> << >>, fetched |-> << >>, merged |-> << >>, code |-> 0,
    at_start |-> NoFile ]

\* CsvStore(csv_path) on a path where no file exists yet.
Init ==
  /\ parsed = NoParse
  /\ csv = NoFile
  /\ clock = 1
  /\ calls = 0
  /\ last = NoCall
  /\ inserted_at = EmptyDict
  /\ merging = NoMerging
  /\ search = NoSearch

\* One call store.merge_listings(new_listings, mark_missing_inactive) that reads
\* the clock as t; `again` says that the caller repeats its previous call's batch.
Merge(new_listings, t, mark_missing_inactive, again) ==
  /\ calls < MaxCalls
  /\ t <= MaxTime
  /\ clock' = t
  /\ calls' = calls + 1
  /\ UNCHANGED << parsed, merging, search >>
  /\ \E out \in { merge_listings(csv, new_listings, isoformat(t),
                                 mark_missing_inactive) } :
       /\ csv' = out.written
       /\ last' = [ op |-> "merge", before |-> csv, new_listings |-> new_listings,
                    now |-> isoformat(t),
                    mark_missing_inactive |-> mark_missing_inactive,
                    result |-> out.result, again |-> again ]
       \* for every id the store can read back: the "now" of the call that
       \* inserted it
       /\ inserted_at' =
            [ id \in DOMAIN read_all(out.written) |->
                IF id \in DOMAIN inserted_at THEN inserted_at[id] ELSE isoformat(t) ]

MergeListings ==
  /\ last.op = "none"
  /\ \E new_listings \in Batches, t \in { clock, clock + 1 },
        mark_missing_inactive \in BOOLEAN :
       Merge(new_listings, t, mark_missing_inactive, FALSE)

\* The caller calls merge_listings a second time in a row with the batch of
\* the call that has just returned.
MergeAgain ==
  /\ last.op = "merge"
  /\ \E t \in { clock, clock + 1 }, mark_missing_inactive \in BOOLEAN :
       Merge(last.new_listings, t, mark_missing_inactive, TRUE)

\* CsvStore.clear
Clear ==
  /\ last.op = "none"
  /\ calls < MaxCalls
  /\ csv' = NoFile
  /\ last' = [ NoCall EXCEPT !.op = "clear", !.before = csv ]
  /\ inserted_at' = EmptyDict
  /\ calls' = calls + 1
  /\ UNCHANGED << clock, parsed, merging, search >>

\* merge_listings raises out of _write_all (l.77): either open() fails and
\* the file is not touched, or the file was opened, which truncates it, and
\* fewer lines than the whole table were written.
MergeFails ==
  /\ last.op = "none"
  /\ calls < MaxCalls
  /\ calls' = calls + 1
  /\ UNCHANGED << parsed, merging, search >>
  /\ \E new_listings \in Batches, t \in { clock, clock + 1 },
        mark_missing_inactive \in BOOLEAN, opened \in BOOLEAN :
       /\ t <= MaxTime
       /\ clock' = t
       /\ \E existing \in { LET start == [ existing |-> read_all(csv), added |-> 0,
                                            updated |-> 0, unchanged |-> 0,
                                            seen_ids |-> {} ]
                                 done == merge_loop(start, new_listings, 1, isoformat(t))
                             IN  mark_missing(done.existing, done.seen_ids, isoformat(t),
                                              mark_missing_inactive) } :
            \E lines \in 0..Cardinality(DOMAIN existing) :
              /\ csv' = IF opened THEN write_all_stopped(existing, lines) ELSE csv
              /\ last' = [ NoCall EXCEPT !.op = "merge_failed", !.before = csv,
                                          !.new_listings = new_listings,
                                          !.now = isoformat(t),
                                          !.mark_missing_inactive = mark_missing_inactive ]
              /\ inserted_at' =
                   [ id \in DOMAIN read_all(csv') |->
                       IF id \in DOMAIN inserted_at THEN inserted_at[id]
                       ELSE isoformat(t) ]

\* CsvStore.get_stats: the file is read, nothing is written.
GetStats ==
  /\ last.op = "none"
  /\ last' = [ NoCall EXCEPT !.op = "stats", !.before = csv, !.result = get_stats(csv) ]
  /\ UNCHANGED << csv, clock, calls, inserted_at, parsed, merging, search >>

\* The caller is done with the call's result; the store is idle again.
Return ==
  /\ last.op # "none"
  /\ last' = NoCall
  /\ UNCHANGED << csv, clock, calls, inserted_at, parsed, merging, search >>

Next == MergeListings \/ Clear \/ GetStats \/ Return

Spec == Init /\ [][Next]_vars

\* The same store with a caller that may repeat a batch in two successive calls.
NextRepeat == MergeListings \/ MergeAgain \/ Clear \/ GetStats \/ Return

SpecRepeat == Init /\ [][NextRepeat]_vars

(***************************************************************************)
(* Text as the extractor sees it.                                          *)
(***************************************************************************)
Digits == { "0", "1", "2", "3", "4", "5", "6", "7", "8", "9" }

\* The str a sequence of symbols spells.
RECURSIVE join(_)
join(text) == IF Len(text) = 0 THEN "" ELSE Head(text) \o join(Tail(text))

\* A greedy \d+ that starts at i: the index of the last digit of the run
\* (i - 1 when text[i] is no digit).
RECURSIVE digits_end(_, _)
digits_end(text, i) ==
  IF i <= Len(text) /\ text[i] \in Digits THEN digits_end(text, i + 1) ELSE i - 1

\* All texts made of at most n of the given parts.
RECURSIVE TextsOf(_, _)
TextsOf(parts, n) ==
  IF n = 0 THEN { << >> }
  ELSE LET shorter == TextsOf(parts, n - 1)
       IN  shorter \cup { part \o text : part \in parts, text \in shorter }

\* int() of a run of digits.
RECURSIVE to_int(_)
to_int(digits) ==
  IF Len(digits) = 0 THEN 0
  ELSE 10 * to_int(SubSeq(digits, 1, Len(digits) - 1))
       + (CHOOSE n \in 0..9 : ToString(n) = digits[Len(digits)])

Whitespace == { " ", "\n" }

\* str.strip()
RECURSIVE strip(_)
strip(text) ==
  IF Len(text) = 0 THEN text
  ELSE IF Head(text) \in Whitespace THEN strip(Tail(text))
  ELSE IF text[Len(text)] \in Whitespace THEN strip(SubSeq(text, 1, Len(text) - 1))
  ELSE text

\* An Optional number is << >> for None and << n >> for the number n; a
\* float is held as its count of hundredths.
cell_int(optional) ==
  IF optional = << >> THEN None ELSE PyInt(ToString(optional[1]))

\* repr() of the float that is h hundredths: "2500.0", "0.5", "33.33".
float_repr(h) ==
  LET frac == h % 100
  IN  ToString(h \div 100) \o "." \o
        (IF frac % 10 = 0 THEN ToString(frac \div 10)
         ELSE IF frac < 10 THEN "0" \o ToString(frac)
         ELSE ToString(frac))

cell_float(optional) ==
  IF optional = << >> THEN None
  ELSE [ t |-> "float", v |-> float_repr(optional[1]) ]

(***************************************************************************)
(* normalize_price, normalize_area                                         *)
(***************************************************************************)
\* The non-breaking space, "\xa0" in the source.
NBSP == " "

\* (variant: the digits are read up to the first separator only)
normalize_price_first_run(price_str) ==
  IF Len(price_str) = 0 THEN << >>
  ELSE LET cleaned == SelectSeq(price_str, LAMBDA c : c \in Digits)
           first == IF Len(cleaned) = 0 THEN 1
                    ELSE CHOOSE i \in 1..Len(price_str) :
                           /\ price_str[i] \in Digits
                           /\ \A j \in 1..(i - 1) : price_str[j] \notin Digits
       IN  IF Len(cleaned) > 0
           THEN << to_int(SubSeq(price_str, first, digits_end(price_str, first))) >>
           ELSE << >>

normalize_price(price_str) ==
  IF Len(price_str) = 0 THEN << >>
  ELSE LET replaced == SelectSeq(price_str, LAMBDA c : c # NBSP)
           cleaned == SelectSeq(replaced, LAMBDA c : c \in Digits)
       IN  IF Len(cleaned) > 0 THEN << to_int(cleaned) >> ELSE << >>

\* float(cleaned) for a text of digits and dots, in hundredths; << >> where
\* float() raises ValueError (no digit, or more than one dot).  Exact for
\* texts with at most two digits after the dot.
float_of(cleaned) ==
  LET dots == { i \in 1..Len(cleaned) : cleaned[i] = "." }
  IN  IF Cardinality(dots) > 1 \/ Len(cleaned) = Cardinality(dots) THEN << >>
      ELSE IF dots = {} THEN << 100 * to_int(cleaned) >>
      ELSE LET dot == CHOOSE i \in dots : TRUE
               whole == SubSeq(cleaned, 1, dot - 1)
               frac == SubSeq(cleaned \o << "0", "0" >>, dot + 1, dot + 2)
           IN  << 100 * to_int(whole) + to_int(frac) >>

normalize_area(area_str) ==
  IF Len(area_str) = 0 THEN << >>
  ELSE LET replaced == [ i \in 1..Len(area_str) |->
                           IF area_str[i] = "," THEN "." ELSE area_str[i] ]
           cleaned == SelectSeq(replaced, LAMBDA c : c \in Digits \cup { "." })
       IN  float_of(cleaned)

\* round(price / area, 2), in hundredths, for area > 0: the nearest
\* hundredth, a tie going to the even one.
round_2(price, area) ==
  LET q == (10000 * price) \div area
      r == (10000 * price) % area
  IN  IF 2 * r > area \/ (2 * r = area /\ q % 2 = 1) THEN q + 1 ELSE q

(***************************************************************************)
(* KvParser._parse_floor                                                   *)
(***************************************************************************)
\* \s* from position i on: the first position that holds no whitespace.
RECURSIVE skip_space(_, _)
skip_space(text, i) ==
  IF i <= Len(text) /\ text[i] \in Whitespace THEN skip_space(text, i + 1) ELSE i

\* \s*(\d+)\s*/\s*(\d+) matched at position i: << group 1, group 2 >> as
\* ints, << >> when there is no match.
fraction_at(text, i) ==
  LET first == skip_space(text, i)
      first_end == digits_end(text, first)
      slash == skip_space(text, first_end + 1)
      second == skip_space(text, slash + 1)
      second_end == digits_end(text, second)
  IN  IF first_end >= first /\ slash <= Len(text) /\ text[slash] = "/"
         /\ second_end >= second
      THEN << to_int(SubSeq(text, first, first_end)),
              to_int(SubSeq(text, second, second_end)) >>
      ELSE << >>

\* re.search(r"(?:[Ff]loor|[Kk]orrus)\s*(\d+)\s*/\s*(\d+)", text) from i on.
RECURSIVE search_floor(_, _)
search_floor(text, i) ==
  IF i > Len(text) THEN << >>
  ELSE IF text[i] \in { "Floor", "floor", "Korrus", "korrus" }
          /\ fraction_at(text, i + 1) # << >>
       THEN fraction_at(text, i + 1)
       ELSE search_floor(text, i + 1)

\* << floor, total_floors >>, or << >> for (None, None).
parse_floor(text) ==
  IF Len(text) = 0 THEN << >>
  ELSE IF search_floor(text, 1) # << >> THEN search_floor(text, 1)
  ELSE fraction_at(strip(text), 1)

\* str.lower() on the symbols in use.
lower(symbol) ==
  CASE symbol = "Listings that might interest you" -> "listings that might interest you"
    [] symbol = "Soovitatud kuulutused" -> "soovitatud kuulutused"
    [] symbol \in { "Broneeritud", "BRONEERITUD" } -> "broneeritud"
    [] symbol \in { "Reserved", "RESERVED" } -> "reserved"
    [] symbol = "Renoveeritud" -> "renoveeritud"
    [] symbol = "Kivimaja" -> "kivimaja"
    [] symbol = "Turnkey" -> "turnkey"
    [] symbol = "Adobe" -> "adobe"
    [] OTHER -> symbol

\* needle in text.lower(), for a needle of lowercase symbols.
contains(text, needle) ==
  \E i \in 0..(Len(text) - Len(needle)) :
    \A j \in 1..Len(needle) : lower(text[i + j]) = needle[j]

(***************************************************************************)
(* KvParser._parse_excerpt                                                 *)
(*                                                                         *)
(* A search term is the sequence of its words and separators; a word of    *)
(* the texts in use holds a search term only as a whole.                   *)
(***************************************************************************)
EXCERPT_MATERIALS ==
  << << << "stone", " ", "house" >>, "stone" >>,
     << << "kivimaja" >>, "stone" >>,
     << << "panel", " ", "house" >>, "panel" >>,
     << << "paneelmaja" >>, "panel" >>,
     << << "paneel" >>, "panel" >>,
     << << "wooden", " ", "house" >>, "wood" >>,
     << << "puitkarkass" >>, "wood" >>,
     << << "puit" >>, "wood" >>,
     << << "brick", " ", "house" >>, "brick" >>,
     << << "tellismaja" >>, "brick" >>,
     << << "log", " ", "house" >>, "log" >>,
     << << "palkmaja" >>, "log" >> >>

EXCERPT_CONDITIONS ==
  << << << "all", " ", "brand-new" >>, "new" >>,
     << << "brand-new" >>, "new" >>,
     << << "uus", "," >>, "new" >>,
     << << ",", " ", "uus" >>, "new" >>,
     << << "renoveeritud" >>, "renovated" >>,
     << << "renovated" >>, "renovated" >>,
     << << "good", " ", "condition" >>, "good" >>,
     << << "heas", " ", "seisukorras" >>, "good" >>,
     << << "hea", " ", "seisukord" >>, "good" >>,
     << << "satisfactory", " ", "condition" >>, "satisfactory" >>,
     << << "rahuldav" >>, "satisfactory" >>,
     << << "needs", " ", "renovation" >>, "needs renovation" >>,
     << << "vajab", " ", "remonti" >>, "needs renovation" >> >>

\* The loop over a table from entry k on: the normalized value of the first
\* entry whose search term is in the text, None when there is none.
RECURSIVE first_match(_, _, _)
first_match(table, text, k) ==
  IF k > Len(table) THEN None
  ELSE IF contains(text, table[k][1]) THEN PyStr(table[k][2])
  ELSE first_match(table, text, k + 1)

parse_excerpt(excerpt_text) ==
  IF Len(excerpt_text) = 0 THEN [ condition |-> None, building_material |-> None ]
  ELSE [ condition |-> first_match(EXCERPT_CONDITIONS, excerpt_text, 1),
         building_material |-> first_match(EXCERPT_MATERIALS, excerpt_text, 1) ]

(***************************************************************************)
(* KvParser._normalize_condition, KvParser._normalize_building_material    *)
(***************************************************************************)
CONDITION_MAPPINGS ==
  { << << "heas", " ", "korras" >>, "good" >>,
    << << "hea", " ", "seisukord" >>, "good" >>,
    << << "heas", " ", "seisukorras" >>, "good" >>,
    << << "good", " ", "condition" >>, "good" >>,
    << << "good" >>, "good" >>,
    << << "uus" >>, "new" >>,
    << << "new" >>, "new" >>,
    << << "all", " ", "brand-new" >>, "new" >>,
    << << "brand-new" >>, "new" >>,
    << << "renoveeritud" >>, "renovated" >>,
    << << "renovated" >>, "renovated" >>,
    << << "rahuldav" >>, "satisfactory" >>,
    << << "satisfactory", " ", "condition" >>, "satisfactory" >>,
    << << "satisfactory" >>, "satisfactory" >>,
    << << "vajab", " ", "remonti" >>, "needs renovation" >>,
    << << "needs", " ", "renovation" >>, "needs renovation" >> }

MATERIAL_MAPPINGS ==
  { << << "kivimaja" >>, "stone" >>,
    << << "stone", " ", "house" >>, "stone" >>,
    << << "stone" >>, "stone" >>,
    << << "paneelmaja" >>, "panel" >>,
    << << "panel", " ", "house" >>, "panel" >>,
    << << "paneel" >>, "panel" >>,
    << << "panel" >>, "panel" >>,
    << << "puitkarkass" >>, "wood" >>,
    << << "puit" >>, "wood" >>,
    << << "wooden", " ", "house" >>, "wood" >>,
    << << "wood" >>, "wood" >>,
    << << "tellismaja" >>, "brick" >>,
    << << "brick", " ", "house" >>, "brick" >>,
    << << "brick" >>, "brick" >>,
    << << "palkmaja" >>, "log" >>,
    << << "log", " ", "house" >>, "log" >>,
    << << "log" >>, "log" >> }

\* text.lower()
lower_text(text) == [ i \in 1..Len(text) |-> lower(text[i]) ]

\* mappings.get(key, key), as a str.
mappings_get(mappings, key) ==
  IF \E entry \in mappings : entry[1] = key
  THEN (CHOOSE entry \in mappings : entry[1] = key)[2]
  ELSE join(key)

normalize_condition(condition) ==
  mappings_get(CONDITION_MAPPINGS, strip(lower_text(condition)))

normalize_building_material(material) ==
  mappings_get(MATERIAL_MAPPINGS, strip(lower_text(material)))

(***************************************************************************)
(* KvParser._parse_listing_card                                            *)
(*                                                                         *)
(* A container (article element) is its data-object-id and the texts of    *)
(* div.price (its own text node and its small element), div.area and       *)
(* p.object-excerpt; a sub-element that is missing has the empty text,     *)
(* which the code treats alike.  `marked` says whether the raw document    *)
(* spells the attribute as data-object-id="<id>", the string               *)
(* parse_search_results looks for.  `classes` is the list of the element's *)
(* class names, each the sequence of its pieces.                           *)
(***************************************************************************)
Container(id, marked, classes, price_text, small_text, area_text, excerpt_text) ==
  [ kind |-> "article", id |-> id, marked |-> marked, classes |-> classes,
    price_text |-> price_text, small_text |-> small_text, area_text |-> area_text,
    excerpt_text |-> excerpt_text ]

\* l.255-261: the loop over the class names from name k on.
RECURSIVE card_property_type(_, _)
card_property_type(classes, k) ==
  IF k > Len(classes) THEN None
  ELSE IF Len(classes[k]) > 0 /\ classes[k][1] = "object-type-"
       THEN PyStr(join(SelectSeq(classes[k], LAMBDA piece : piece # "object-type-")))
       ELSE card_property_type(classes, k + 1)

\* "if price and area and area > 0" for Optional numbers.
can_derive(price, area) ==
  /\ price # << >> /\ price[1] # 0
  /\ area # << >> /\ area[1] # 0
  /\ area[1] > 0

\* l.238-245: the small element's value, else the computed one.
card_price_per_m2(stated, price, area) ==
  IF stated = << >> /\ can_derive(price, area)
  THEN << round_2(price[1], area[1]) >>
  ELSE stated

\* << >> for None, << listing >> otherwise.
parse_listing_card(container) ==
  IF container.id = "" THEN << >>
  ELSE
    LET area == normalize_area(container.area_text)
        price_text == strip(container.price_text)
        price == IF Len(price_text) > 0 /\ "€" \in Range(price_text)
                 THEN normalize_price(price_text)
                 ELSE << >>
        price_per_m2 == card_price_per_m2(normalize_area(container.small_text),
                                          price, area)
        floors == parse_floor(container.excerpt_text)
        excerpt == parse_excerpt(container.excerpt_text)
    IN  << [ Listing(container.id, "", cell_int(price), excerpt.condition, TRUE, None,
                     PyStr(parser_now))
               EXCEPT !.price_per_m2 = cell_float(price_per_m2),
                      !.property_type = card_property_type(container.classes, 1),
                      !.building_material = excerpt.building_material,
                      !.area_m2 = cell_float(area),
                      !.floor = IF floors = << >> THEN None
                                ELSE cell_int(<< floors[1] >>),
                      !.total_floors = IF floors = << >> THEN None
                                       ELSE cell_int(<< floors[2] >>) ] >>

(***************************************************************************)
(* KvParser.parse_search_results                                           *)
(*                                                                         *)
(* The raw document is a sequence of blocks, containers and headings, and  *)
(* a block's index stands for its character offset in the document.        *)
(***************************************************************************)
RECOMMENDED_SECTION_MARKERS ==
  << "kuulutused, mis võiksid sulle huvi pakkuda",
     "listings that might interest you",
     "recommended listings",
     "soovitatud kuulutused" >>

Heading(text) == [ kind |-> "heading", text |-> text ]

\* html.find(...), given the positions where the string occurs: the first
\* of them, -1 when there is none.
find(occurrences) ==
  IF occurrences = {} THEN -1
  ELSE CHOOSE i \in occurrences : \A j \in occurrences : i <= j

\* The loop over the markers from marker k on: {} for None, { pos } otherwise.
RECURSIVE find_recommended_from(_, _)
find_recommended_from(html, k) ==
  IF k > Len(RECOMMENDED_SECTION_MARKERS) THEN {}
  ELSE LET marker == RECOMMENDED_SECTION_MARKERS[k]
           pos == find({ i \in 1..Len(html) :
                           html[i].kind = "heading" /\ lower(html[i].text) = marker })
       IN  IF pos # -1 THEN { pos } ELSE find_recommended_from(html, k + 1)

find_recommended_section_position(html) == find_recommended_from(html, 1)

\* Whether the loop skips the container at position i.
skipped(html, recommended_pos, i) ==
  /\ recommended_pos # {}
  /\ html[i].id # ""
  /\ LET article_pos ==
           find({ j \in 1..Len(html) :
                    /\ html[j].kind = "article"
                    /\ html[j].marked
                    /\ html[j].id = html[i].id })
     IN  \A pos \in recommended_pos : article_pos > pos

\* The loop over the containers, from block i on.
RECURSIVE parse_containers(_, _, _)
parse_containers(html, recommended_pos, i) ==
  IF i > Len(html) THEN << >>
  ELSE IF html[i].kind # "article" \/ skipped(html, recommended_pos, i)
       THEN parse_containers(html, recommended_pos, i + 1)
       ELSE parse_listing_card(html[i]) \o parse_containers(html, recommended_pos, i + 1)

parse_search_results(html) ==
  parse_containers(html, find_recommended_section_position(html), 1)

(***************************************************************************)
(* KvParser.parse_listing_page                                             *)
(*                                                                         *)
(* A detail page is the sequence of its elements that carry text (each a   *)
(* status/overlay element, a table header cell or another element), the    *)
(* dict _extract_meta_table builds and the text of the price element.      *)
(***************************************************************************)
Element(kind, text) == [ kind |-> kind, text |-> text ]

Page(elements, meta, price_text) ==
  [ elements |-> elements, meta |-> meta, price_text |-> price_text ]

\* soup.select_one(".object-status, .listing-status, .overlay"): the first
\* such element, as a set of at most one.
select_one_overlay(elements) ==
  { elements[i] : i \in { j \in 1..Len(elements) :
      /\ elements[j].kind = "status"
      /\ \A k \in 1..(j - 1) : elements[k].kind # "status" } }

detect_reserved_status(elements) ==
  IF \E i \in 1..Len(elements) :
       \/ contains(elements[i].text, << "(", "broneeritud", ")" >>)
       \/ contains(elements[i].text, << "(", "reserved", ")" >>)
  THEN TRUE
  ELSE IF \E i \in 1..Len(elements) : contains(elements[i].text, << "broneeritud" >>)
  THEN \/ \E overlay \in select_one_overlay(elements) :
            contains(overlay.text, << "broneeritud" >>)
       \/ \E i \in 1..Len(elements) :
            elements[i].kind = "th" /\ contains(elements[i].text, << "broneeritud" >>)
  ELSE FALSE

\* meta.get(a) or meta.get(b) or ...: the first text that is there, the
\* empty text when none is (the dict holds no empty value).
RECURSIVE meta_get_any(_, _)
meta_get_any(meta, keys) ==
  IF Len(keys) = 0 THEN << >>
  ELSE IF Head(keys) \in DOMAIN meta THEN meta[Head(keys)]
  ELSE meta_get_any(meta, Tail(keys))

parse_listing_page(html, listing_id) ==
  LET is_reserved == detect_reserved_status(html.elements)
      area_str == meta_get_any(html.meta, << "üldpind", "total area" >>)
      area == IF Len(area_str) > 0 THEN normalize_area(area_str) ELSE << >>
      floor_str == meta_get_any(html.meta,
                                << "korrus/korruseid", "floor/floors", "korrus" >>)
      floors == IF Len(floor_str) > 0 THEN parse_floor(floor_str) ELSE << >>
      price == normalize_price(html.price_text)
      price_per_m2 == IF can_derive(price, area)
                      THEN << round_2(price[1], area[1]) >>
                      ELSE << >>
      condition_str == meta_get_any(html.meta, << "seisukord", "condition" >>)
      condition == IF Len(condition_str) > 0
                   THEN PyStr(normalize_condition(condition_str))
                   ELSE None
      material_str == meta_get_any(html.meta, << "ehitusmaterjal", "building material" >>)
      building_material == IF Len(material_str) > 0
                           THEN PyStr(normalize_building_material(material_str))
                           ELSE None
  IN  [ Listing(listing_id, "", cell_int(price), condition, ~is_reserved,
                PyStr(IF is_reserved THEN "reserved" ELSE "active"),
                PyStr(parser_now))
          EXCEPT !.price_per_m2 = cell_float(price_per_m2),
                 !.building_material = building_material,
                 !.area_m2 = cell_float(area),
                 !.floor = IF floors = << >> THEN None ELSE cell_int(<< floors[1] >>),
                 !.total_floors = IF floors = << >> THEN None
                                  ELSE cell_int(<< floors[2] >>) ]

(***************************************************************************)
(* The documents handed to the extractor.                                  *)
(***************************************************************************)
PriceTexts ==
  { << >>, << "1", "0", "0", " ", "€" >>, << "0", " ", "€" >>, << "€" >>,
    << "1", "0", "0" >> }

AreaTexts ==
  { << >>, << "4", "0", " ", "m²" >>, << "6", "0", ",", "5", "m2" >>,
    << "0", " ", "m²" >>, << "m²" >> }

SmallTexts == { << >>, << "2", "5", " ", "€", "/", "m²" >>, << "€", "/", "m²" >> }

FloorTexts ==
  { << >>, << "Floor", " ", "3", "/", "5" >>, << "Floor", " ", "5", "/", "3" >>,
    << "korrus", "2", "/", "2", ",", " ", "kivimaja" >>,
    << " ", "1", " ", "/", " ", "4" >>, << "kivimaja", ",", " ", "3", "/", "5" >>,
    << "Floor", " ", "3" >> }

\* A card with nothing but its id.
PlainContainer(id, marked) == Container(id, marked, << >>, << >>, << >>, << >>, << >>)

Blocks ==
  { PlainContainer("10", TRUE), PlainContainer("9", TRUE),
    PlainContainer("10", FALSE), PlainContainer("", TRUE),
    Heading("Listings that might interest you"), Heading("Soovitatud kuulutused") }

\* Condition and building-material texts as the site states them in a table
\* cell or an excerpt.
ConditionTexts ==
  { << "Renoveeritud" >>, << "heas", " ", "korras" >>, << "Turnkey" >>,
    << "needs", " ", "renovation" >> }

MaterialTexts == { << "Kivimaja" >>, << "stone" >>, << "Adobe" >> }

\* An excerpt in the format the site uses: "Floor X/Y, material, condition".
Excerpt(floor_text, material_text, condition_text) ==
  floor_text \o << ",", " " >> \o material_text \o << ",", " " >> \o condition_text

ExcerptTexts ==
  { Excerpt(<< "Floor", " ", "3", "/", "5" >>, material_text, condition_text) :
      material_text \in MaterialTexts, condition_text \in ConditionTexts }

\* Class names of an article element.
ClassNames ==
  { << "default" >>, << "object-type-", "apartment" >>, << "object-type-", "house" >>,
    << "object-type-", "garage" >>, << "object-type-" >> }

\* Search pages: up to MaxBlocks plain cards and headings in any order, and
\* pages of one card with every combination of sub-element texts, of
\* excerpts, and of up to MaxClasses class names.
SearchPages ==
  SeqsUpTo(Blocks, MaxBlocks)
    \cup { << Container("10", TRUE, << >>, price_text, small_text, area_text,
                        excerpt_text) >> :
             price_text \in PriceTexts, small_text \in SmallTexts,
             area_text \in AreaTexts, excerpt_text \in FloorTexts }
    \cup { << Container("10", TRUE, classes, << >>, << >>, << >>, excerpt_text) >> :
             classes \in SeqsUpTo(ClassNames, MaxClasses),
             excerpt_text \in ExcerptTexts \cup { << >> } }

ElementTexts ==
  { << "Müüa korter" >>, << "Müüa korter", " ", "(", "Broneeritud", ")" >>,
    << "BRONEERITUD" >>, << "For sale", " ", "(", "RESERVED", ")" >>,
    << "Reserved" >> }

Elements ==
  { Element(kind, text) : kind \in { "status", "th", "p" }, text \in ElementTexts }

\* The meta tables: area and floor rows under their Estonian or English
\* header, or missing.
MetaTables ==
  { [ key \in keys |-> IF key \in { "üldpind", "total area" } THEN area_text
                       ELSE floor_text ] :
      keys \in { {}, { "üldpind" }, { "total area", "korrus" },
                 { "üldpind", "korrus/korruseid" } },
      area_text \in AreaTexts \ { << >> }, floor_text \in FloorTexts \ { << >> } }

\* The meta tables with condition and building-material rows under their
\* Estonian or English header, or missing.
ConditionTables ==
  { [ key \in keys |-> IF key \in { "seisukord", "condition" } THEN condition_text
                       ELSE material_text ] :
      keys \in { { "seisukord" }, { "condition", "building material" },
                 { "ehitusmaterjal" }, { "seisukord", "ehitusmaterjal" } },
      condition_text \in ConditionTexts, material_text \in MaterialTexts }

\* Detail pages: up to MaxElements elements in any order, and pages with
\* every combination of meta table and price text.
DetailPages ==
  { Page(elements, << >>, << >>) : elements \in SeqsUpTo(Elements, MaxElements) }
    \cup { Page(<< >>, meta, price_text) :
             meta \in MetaTables, price_text \in PriceTexts }
    \cup { Page(<< >>, meta, << >>) : meta \in ConditionTables }

\* The price strings handed to normalize_price: up to MaxParts digits,
\* spaces, non-breaking spaces, commas and currency symbols in any order.
PriceParts ==
  { << "0" >>, << "1" >>, << "2" >>, << " " >>, << NBSP >>, << "," >>, << "€" >> }

PriceStrings == TextsOf(PriceParts, MaxParts)

(***************************************************************************)
(* extract_listing_id                                                      *)
(***************************************************************************)
\* re.search(lead + r"(\d+)\.html", url) from position i on: group(1) of the
\* leftmost match, None when there is none.
RECURSIVE search_before_html(_, _, _)
search_before_html(url, lead, i) ==
  IF i > Len(url) THEN None
  ELSE LET end == digits_end(url, i + 1)
       IN  IF url[i] = lead /\ end > i /\ end < Len(url) /\ url[end + 1] = ".html"
           THEN PyStr(join(SubSeq(url, i + 1, end)))
           ELSE search_before_html(url, lead, i + 1)

\* re.search(r"[?&]id=(\d+)", url) from position i on.
RECURSIVE search_id_param(_, _)
search_id_param(url, i) ==
  IF i >= Len(url) THEN None
  ELSE LET end == digits_end(url, i + 2)
       IN  IF url[i] \in { "?", "&" } /\ url[i + 1] = "id=" /\ end > i + 1
           THEN PyStr(join(SubSeq(url, i + 2, end)))
           ELSE search_id_param(url, i + 1)

\* (variant: the bare numeric path segment is tried first)
extract_listing_id_path_first(url) ==
  IF search_before_html(url, "/", 1) # None THEN search_before_html(url, "/", 1)
  ELSE IF search_before_html(url, "-", 1) # None THEN search_before_html(url, "-", 1)
  ELSE search_id_param(url, 1)

extract_listing_id(url) ==
  IF search_before_html(url, "-", 1) # None THEN search_before_html(url, "-", 1)
  ELSE IF search_before_html(url, "/", 1) # None THEN search_before_html(url, "/", 1)
  ELSE search_id_param(url, 1)

\* The URLs handed to extract_listing_id: up to MaxParts pieces of paths,
\* slugs and query strings, in any order.
UrlParts ==
  { << "/", "a" >>, << "/", "2" >>, << "-", "1" >>, << "-" >>, << "5" >>,
    << ".html" >>, << "?", "id=", "3" >>, << "&", "id=", "4" >>, << "?", "a", "id=" >> }

Urls == TextsOf(UrlParts, MaxParts)

(***************************************************************************)
(* The extractor's functions as calls: each takes an input and leaves its  *)
(* result; they keep no state between calls.                               *)
(***************************************************************************)
ExtractListingId ==
  /\ parsed.op = "none"
  /\ \E url \in Urls :
       parsed' = [ op |-> "extract_listing_id", input |-> url,
                   result |-> extract_listing_id(url) ]
  /\ UNCHANGED << csv, clock, calls, last, inserted_at, merging, search >>

\* The caller drops the result.
Discard ==
  /\ parsed.op # "none"
  /\ parsed' = NoParse
  /\ UNCHANGED << csv, clock, calls, last, inserted_at, merging, search >>

ParseSearchResults ==
  /\ parsed.op = "none"
  /\ \E html \in SearchPages :
       parsed' = [ op |-> "parse_search_results", input |-> html,
                   result |-> parse_search_results(html) ]
  /\ UNCHANGED << csv, clock, calls, last, inserted_at, merging, search >>

ParseListingPage ==
  /\ parsed.op = "none"
  /\ \E html \in DetailPages, listing_id \in { "10", "" } :
       parsed' = [ op |-> "parse_listing_page", input |-> html,
                   result |-> << parse_listing_page(html, listing_id) >> ]
  /\ UNCHANGED << csv, clock, calls, last, inserted_at, merging, search >>

NormalizePrice ==
  /\ parsed.op = "none"
  /\ \E price_str \in PriceStrings :
       parsed' = [ op |-> "normalize_price", input |-> price_str,
                   result |-> normalize_price(price_str) ]
  /\ UNCHANGED << csv, clock, calls, last, inserted_at, merging, search >>

NextParser ==
  \/ ExtractListingId \/ ParseSearchResults \/ ParseListingPage
  \/ NormalizePrice \/ Discard

SpecParser == Init /\ [][NextParser]_vars

(***************************************************************************)
(* Two callers of merge_listings on one store path.                        *)
(*                                                                         *)
(* merge_listings reads the file (l.45), works on its own dict and writes  *)
(* the file (l.77); nothing locks the file in between, so the reads and    *)
(* writes of two callers can fall in any order.  A read and a write of the *)
(* file are each taken as one step.                                        *)
(***************************************************************************)
\* The tables earlier runs can have left at the path: none, or a table of
\* one record.
StoredTables ==
  { NoFile } \cup
  { merge_listings(NoFile, << listing >>, isoformat(0), FALSE).written :
      listing \in Listings }

\* CsvStore(csv_path) on a path where earlier runs have left a table.
InitStored ==
  /\ parsed = NoParse
  /\ csv \in StoredTables
  /\ clock = 1
  /\ calls = 0
  /\ last = NoCall
  /\ inserted_at = EmptyDict
  /\ merging = [ NoMerging EXCEPT !.at_start = csv ]
  /\ search = NoSearch

\* l.45-46 of a call merge_listings(new_listings, mark_missing_inactive):
\* the file is read and then the clock.
StartMerge(w) ==
  /\ merging.writers[w].pc = "idle"
  /\ \E new_listings \in Batches, mark_missing_inactive \in BOOLEAN :
       merging' = [ merging EXCEPT
                      !.writers[w] = [ pc |-> "read", new_listings |-> new_listings,
                                       mark_missing_inactive |-> mark_missing_inactive,
                                       existing |-> read_all(csv),
                                       now |-> isoformat(clock),
                                       result |-> << 0, 0, 0 >> ],
                      !.steps = Append(@, << "read", w >>) ]
  /\ clock' = IF clock < MaxTime THEN clock + 1 ELSE clock
  /\ UNCHANGED << csv, calls, last, inserted_at, parsed, search >>

\* l.48-78 of the call: the loops over the dict read at the start, and the
\* write of the whole table.
FinishMerge(w) ==
  /\ merging.writers[w].pc = "read"
  /\ \E call \in { merging.writers[w] } :
       \E done \in { merge_loop([ existing |-> call.existing, added |-> 0,
                                   updated |-> 0, unchanged |-> 0, seen_ids |-> {} ],
                                 call.new_listings, 1, call.now) } :
         /\ csv' = write_all(mark_missing(done.existing, done.seen_ids, call.now,
                                          call.mark_missing_inactive))
         /\ merging' = [ merging EXCEPT
                           !.writers[w].pc = "done",
                           !.writers[w].result =
                              << done.added, done.updated, done.unchanged >>,
                           !.steps = Append(@, << "write", w >>) ]
  /\ UNCHANGED << clock, calls, last, inserted_at, parsed, search >>

NextInterleaved ==
  \/ \E w \in Writers : StartMerge(w)
  \/ \E w \in Writers : FinishMerge(w)

SpecInterleaved == InitStored /\ [][NextInterleaved]_vars

(***************************************************************************)
(* SearchCriteria.validate                                                 *)
(***************************************************************************)
\* The keys of DEAL_TYPE_MAP.
DEAL_TYPE_MAP == { "sale", "rent" }

\* "min is not None and max is not None" and "min > max"
greater(min, max) == min # << >> /\ max # << >> /\ min[1] > max[1]

\* The list of errors.
validate(self) ==
  (IF self.deal_type \notin DEAL_TYPE_MAP THEN << "Invalid deal_type" >> ELSE << >>)
  \o (IF greater(self.price_min, self.price_max)
      THEN << "price_min cannot be greater than price_max" >> ELSE << >>)
  \o (IF greater(self.rooms_min, self.rooms_max)
      THEN << "rooms_min cannot be greater than rooms_max" >> ELSE << >>)
  \o (IF greater(self.area_min, self.area_max)
      THEN << "area_min cannot be greater than area_max" >> ELSE << >>)
  \o (IF self.page < 1 THEN << "page must be >= 1" >> ELSE << >>)

(***************************************************************************)
(* cmd_search                                                              *)
(*                                                                         *)
(* The command runs in steps: from its start to the loop over the pages,   *)
(* one pass of the loop for every page it fetches, and from the end of the *)
(* loop to its return.                                                     *)
(***************************************************************************)
\* What fetcher.fetch_search_results returns.
FetchResult(html, status_code, is_blocked) ==
  [ html |-> html, status_code |-> status_code, is_blocked |-> is_blocked ]

\* The record of one pass of the loop.
Fetched(page, result, listings) ==
  [ page |-> page, status_code |-> result.status_code,
    is_blocked |-> result.is_blocked, listings |-> listings ]

\* (variant: the errors are reported and the command goes on)
search_start_goes_on(criteria, dry_run, pages, file) ==
  LET errors == validate(criteria)
      started == [ NoSearch EXCEPT !.criteria = criteria, !.errors = errors,
                                   !.dry_run = dry_run, !.pages = pages,
                                   !.at_start = file ]
  IN  IF dry_run THEN [ started EXCEPT !.pc = "returned", !.code = 0 ]
      ELSE IF pages < 1 THEN [ started EXCEPT !.pc = "after_loop" ]
      ELSE [ started EXCEPT !.pc = "loop", !.page = 1 ]

\* l.116-131: the command up to the loop.
search_start(criteria, dry_run, pages, file) ==
  LET errors == validate(criteria)
      started == [ NoSearch EXCEPT !.criteria = criteria, !.errors = errors,
                                   !.dry_run = dry_run, !.pages = pages,
                                   !.at_start = file ]
  IN  IF Len(errors) > 0 THEN [ started EXCEPT !.pc = "returned", !.code = 1 ]
      ELSE IF dry_run THEN [ started EXCEPT !.pc = "returned", !.code = 0 ]
      ELSE IF pages < 1 THEN [ started EXCEPT !.pc = "after_loop" ]
      ELSE [ started EXCEPT !.pc = "loop", !.page = 1 ]

\* (variant: the loop goes on after a page without listings)
loop_pass_past_empty(run, result) ==
  LET failed == [ run EXCEPT !.fetched = Append(@, Fetched(run.page, result, << >>)) ]
  IN  IF result.is_blocked
      THEN IF run.page = 1 THEN [ failed EXCEPT !.pc = "returned", !.code = 1 ]
           ELSE [ failed EXCEPT !.pc = "after_loop" ]
      ELSE IF result.status_code # 200
      THEN IF run.page = 1 THEN [ failed EXCEPT !.pc = "returned", !.code = 1 ]
           ELSE [ failed EXCEPT !.pc = "after_loop" ]
      ELSE LET listings == parse_search_results(result.html)
               extended == [ run EXCEPT
                               !.fetched = Append(@, Fetched(run.page, result, listings)),
                               !.all_listings = @ \o listings ]
           IN  IF run.page = run.pages
               THEN [ extended EXCEPT !.pc = "after_loop" ]
               ELSE [ extended EXCEPT !.page = @ + 1 ]

\* (variant: a failed fetch of page 1 leaves the loop like one of a later page)
loop_pass_break_on_first(run, result) ==
  LET failed == [ run EXCEPT !.fetched = Append(@, Fetched(run.page, result, << >>)) ]
  IN  IF result.is_blocked \/ result.status_code # 200
      THEN [ failed EXCEPT !.pc = "after_loop" ]
      ELSE LET listings == parse_search_results(result.html)
               extended == [ run EXCEPT
                               !.fetched = Append(@, Fetched(run.page, result, listings)),
                               !.all_listings = @ \o listings ]
           IN  IF Len(listings) = 0 \/ run.page = run.pages
               THEN [ extended EXCEPT !.pc = "after_loop" ]
               ELSE [ extended EXCEPT !.page = @ + 1 ]

\* l.134-166: one pass of the loop, given what the fetch returned.
loop_pass(run, result) ==
  LET failed == [ run EXCEPT !.fetched = Append(@, Fetched(run.page, result, << >>)) ]
  IN  IF result.is_blocked
      THEN IF run.page = 1 THEN [ failed EXCEPT !.pc = "returned", !.code = 1 ]
           ELSE [ failed EXCEPT !.pc = "after_loop" ]
      ELSE IF result.status_code # 200
      THEN IF run.page = 1 THEN [ failed EXCEPT !.pc = "returned", !.code = 1 ]
           ELSE [ failed EXCEPT !.pc = "after_loop" ]
      ELSE LET listings == parse_search_results(result.html)
               extended == [ run EXCEPT
                               !.fetched = Append(@, Fetched(run.page, result, listings)),
                               !.all_listings = @ \o listings ]
           IN  IF Len(listings) = 0 \/ run.page = run.pages
               THEN [ extended EXCEPT !.pc = "after_loop" ]
               ELSE [ extended EXCEPT !.page = @ + 1 ]

\* The command lines: valid criteria with and without ranges, and criteria
\* with one or two errors.
OptionalRanges == { << << >>, << >> >>, << << 1 >>, << 2 >> >>, << << 2 >>, << 1 >> >> }

CriteriaOfArgs ==
  { SearchCriteria("sale", none, none, none) : none \in { << << >>, << >> >> } }
    \cup { SearchCriteria("rent", range, range, range) :
             range \in { << << 1 >>, << 2 >> >> } }
    \cup { SearchCriteria("lease", none, none, none) : none \in { << << >>, << >> >> } }
    \cup { SearchCriteria("sale", price, rooms, area) :
             price \in OptionalRanges, rooms \in OptionalRanges,
             area \in { << << 2 >>, << 1 >> >>, << << 2 >>, << >> >> } }

\* The pages the site answers with: no card, one or two cards, and a card
\* under the heading of the recommendations.
SitePages ==
  { << >>, << PlainContainer("10", TRUE) >>,
    << PlainContainer("9", TRUE), PlainContainer("10", TRUE) >>,
    << Heading("Soovitatud kuulutused"), PlainContainer("9", TRUE) >> }

\* What a fetch can return: a page, an HTTP error, a block (with or without
\* a failed headless fallback).
FetchResults ==
  { FetchResult(html, 200, FALSE) : html \in SitePages }
    \cup { FetchResult(<< >>, 404, FALSE), FetchResult(<< >>, 403, TRUE),
           FetchResult(<< >>, 0, TRUE) }

CmdSearch ==
  /\ search.pc = "idle"
  /\ calls < MaxCalls
  /\ calls' = calls + 1
  /\ \E criteria \in CriteriaOfArgs, dry_run \in BOOLEAN, pages \in 0..MaxPages :
       search' = search_start(criteria, dry_run, pages, csv)
  /\ UNCHANGED << csv, clock, last, inserted_at, parsed, merging >>

FetchPage ==
  /\ search.pc = "loop"
  /\ \E result \in FetchResults : search' = loop_pass(search, result)
  /\ UNCHANGED << csv, clock, calls, last, inserted_at, parsed, merging >>

\* l.168-175: the merge of what the loop collected, and the return.
SearchFinish ==
  /\ search.pc = "after_loop"
  /\ IF Len(search.all_listings) > 0
     THEN \E t \in { clock, clock + 1 } :
            /\ t <= MaxTime
            /\ clock' = t
            /\ csv' = merge_listings(csv, search.all_listings, isoformat(t),
                                     FALSE).written
            /\ search' = [ search EXCEPT !.pc = "returned", !.code = 0,
                                         !.merged = Append(@, search.all_listings) ]
     ELSE /\ search' = [ search EXCEPT !.pc = "returned", !.code = 0 ]
          /\ UNCHANGED << csv, clock >>
  /\ UNCHANGED << calls, last, inserted_at, parsed, merging >>

\* The process of the command ends.
SearchExit ==
  /\ search.pc = "returned"
  /\ search' = NoSearch
  /\ UNCHANGED << csv, clock, calls, last, inserted_at, parsed, merging >>

NextSearch == CmdSearch \/ FetchPage \/ SearchFinish \/ SearchExit

SpecSearch == Init /\ [][NextSearch]_vars

\* The same store on a disk where a write can fail.
NextFail == MergeListings \/ MergeFails \/ Clear \/ GetStats \/ Return

SpecFail == Init /\ [][NextFail]_vars

(***************************************************************************)
(* What the claims speak of.                                               *)
(***************************************************************************)
\* The records the store reads back now, and those it read at the start of
\* the last call.
Store == read_all(csv)
Before == read_all(last.before)

Merged == last.op = "merge"
Batch == last.new_listings
BatchIds == { Batch[i].id : i \in 1..Len(Batch) }
DistinctIds == \A i, j \in 1..Len(Batch) : Batch[i].id = Batch[j].id => i = j

\* The persisted rows of the file, header excluded, as dicts.
FileRows == [ i \in 1..Len(csv.rows) |-> dict_row(csv.header, csv.rows[i]) ]

\* Given the records the store held before the call: the ids of the batch it
\* did not hold, those it held, and the ids it held that the batch does not have.
NewIds(before) == BatchIds \ DOMAIN before
ExistingIds(before) == BatchIds \cap DOMAIN before
MissingIds(before) == DOMAIN before \ BatchIds

\* The last call repeated its predecessor's batch, a batch of distinct
\* non-empty ids.
RepeatedBatch == Merged /\ last.again /\ DistinctIds /\ "" \notin BatchIds

\* The batch as the dicts merge_listings makes of it, and the values these
\* carry for column col of id.
BatchDicts == [ i \in 1..Len(Batch) |-> to_dict(Batch[i]) ]

Incoming(dicts, id, col) ==
  { dicts[i][col] : i \in { j \in 1..Len(dicts) : dicts[j]["id"] = PyStr(id) } }

\* The columns _merge_row merges by presence.
MergedColumns == Range(CSV_COLUMNS) \ { "first_seen", "last_seen" }

\* The order of two timestamps as the times they are the isoformat of.
Times == 0..(MaxTime + 1)

stamp_leq(a, b) ==
  \E m, n \in Times : isoformat(m) = a /\ isoformat(n) = b /\ m <= n

\* The characters of the ids in use, as code points, and the order Python
\* gives two str values: the first differing character decides, a proper
\* prefix comes first.
code_points(id) ==
  CASE id = "" -> << >>
    [] id = "10" -> << 49, 48 >>
    [] id = "9" -> << 57 >>

RECURSIVE seq_less(_, _)
seq_less(a, b) ==
  IF Len(b) = 0 THEN FALSE
  ELSE IF Len(a) = 0 THEN TRUE
  ELSE IF Head(a) # Head(b) THEN Head(a) < Head(b)
  ELSE seq_less(Tail(a), Tail(b))

str_less(a, b) == seq_less(code_points(a), code_points(b))

\* The number an int cell holds, and the hundredths a float cell holds.
int_of(cell) == CHOOSE n \in 0..100 : ToString(n) = cell.v

hundredths_of(cell) == CHOOSE h \in 0..7000 : float_repr(h) = cell.v

\* The listings of the latest extractor call.
Extracted ==
  IF parsed.op \in { "parse_search_results", "parse_listing_page" }
  THEN parsed.result ELSE << >>

\* A value that Python code or the CSV holds for "no value".
Absent(value) == value \in { None, PyStr(""), PyStr("None") }

(***************************************************************************)
(* C1.  Idempotence of merge: when merge_listings is called twice in a row *)
(* on the same store with an identical batch of N listings with distinct   *)
(* (non-empty) ids, the second call returns (added, updated, unchanged) =  *)
(* (0, 0, N).                                                              *)
(***************************************************************************)
C1_SecondMergeUnchanged ==
  RepeatedBatch => last.result = << 0, 0, Len(Batch) >>

(***************************************************************************)
(* C2.  Once a record for an id exists its first_seen never changes: after *)
(* every call, every record the store holds has the first_seen of the      *)
(* merge call that inserted its id, and a merge leaves the first_seen of   *)
(* every record it found unchanged, whether or not the batch has the id    *)
(* and whatever first_seen the incoming Listing carries.                   *)
(***************************************************************************)
C2_FirstSeenNeverChanges ==
  \A store \in { Store } :
    /\ DOMAIN inserted_at = DOMAIN store
    /\ \A id \in DOMAIN store \cap DOMAIN inserted_at :
         store[id]["first_seen"] = PyStr(inserted_at[id])
    /\ Merged =>
         \A before \in { Before } :
           \A id \in DOMAIN before :
             id \in DOMAIN store /\ store[id]["first_seen"] = before[id]["first_seen"]

\* A later merge, at another time, of a listing that carries its own
\* first_seen, for an id the store already held.
C2_Witness ==
  /\ Merged
  /\ \E store \in { Store }, before \in { Before } :
       \E i \in 1..Len(Batch) :
         /\ Batch[i].id \in DOMAIN before
         /\ Batch[i].first_seen = PyStr(parser_now)
         /\ before[Batch[i].id]["first_seen"] # PyStr(last.now)
         /\ store[Batch[i].id]["first_seen"] = before[Batch[i].id]["first_seen"]

(***************************************************************************)
(* C3.  When a batch contains an id that already exists in the store, the  *)
(* stored record's last_seen after the call is the call's "now", whether   *)
(* or not any other field changed.                                         *)
(***************************************************************************)
C3_LastSeenIsNow ==
  Merged =>
    \A store \in { Store }, before \in { Before } :
      \A id \in ExistingIds(before) :
        id \in DOMAIN store /\ store[id]["last_seen"] = PyStr(last.now)

\* An existing record whose last_seen moved to "now" and that changed in
\* no other column.
C3_Witness ==
  /\ Merged
  /\ \E store \in { Store }, before \in { Before } :
       \E id \in ExistingIds(before) :
         /\ before[id]["last_seen"] # PyStr(last.now)
         /\ store[id]["last_seen"] = PyStr(last.now)
         /\ \A col \in DOMAIN before[id] :
              col # "last_seen" => store[id][col] = before[id][col]

(***************************************************************************)
(* C4.  When a batch contains an id that is not in the store, the call     *)
(* persists a record for that id with first_seen = last_seen = the call's  *)
(* "now", and counts it as added (once per new id).                        *)
(***************************************************************************)
C4_NewIdInserted ==
  Merged =>
    \A rows \in { FileRows }, new_ids \in { NewIds(Before) } :
      /\ \A id \in new_ids :
           \E r \in 1..Len(rows) :
             /\ rows[r]["id"] = PyStr(id)
             /\ rows[r]["first_seen"] = PyStr(last.now)
             /\ rows[r]["last_seen"] = PyStr(last.now)
      /\ last.result[1] = Cardinality(new_ids)

\* Two new ids inserted by one call, one of them from a listing that carries
\* its own stamps.
C4_Witness ==
  /\ Merged
  /\ \E new_ids \in { NewIds(Before) } :
       /\ Cardinality(new_ids) = 2
       /\ last.result[1] = 2
       /\ \E i \in 1..Len(Batch) :
            Batch[i].id \in new_ids /\ Batch[i].first_seen = PyStr(parser_now)

(***************************************************************************)
(* C5.  When merging a listing whose id already exists, a column other     *)
(* than first_seen/last_seen whose incoming value is absent (None, "" or   *)
(* the null-marker "None") keeps its stored value: a column is overwritten *)
(* only when an incoming value is present.                                 *)
(***************************************************************************)
C5_AbsentKeepsStored ==
  Merged =>
    \A store \in { Store }, before \in { Before }, dicts \in { BatchDicts } :
      \A id \in ExistingIds(before) :
        /\ id \in DOMAIN store
        /\ \A col \in MergedColumns :
             \A incoming \in { Incoming(dicts, id, col) } :
               /\ (\A value \in incoming : Absent(value)) =>
                    store[id][col] = before[id][col]
               /\ store[id][col] # before[id][col] =>
                    \E value \in incoming :
                      ~Absent(value) /\ store[id][col] = PyStr(value.v)

\* A stored record with a title, a price and a condition, merged with a
\* listing that has "", None and "None" for them.
C5_Witness ==
  /\ Merged
  /\ \E store \in { Store }, before \in { Before }, dicts \in { BatchDicts } :
       \E id \in ExistingIds(before) :
         /\ Incoming(dicts, id, "title") = { PyStr("") }
         /\ Incoming(dicts, id, "price") = { None }
         /\ Incoming(dicts, id, "condition") = { PyStr("None") }
         /\ before[id]["title"] = PyStr("A")
         /\ before[id]["price"] = PyStr("100")
         /\ before[id]["condition"] = PyStr("good")
         /\ store[id]["title"] = PyStr("A")
         /\ store[id]["price"] = PyStr("100")
         /\ store[id]["condition"] = PyStr("good")
         /\ store[id]["is_active"] # before[id]["is_active"]

(***************************************************************************)
(* C6.  A listing of the batch whose id already exists is counted as       *)
(* updated exactly when the merged record differs from the prior stored    *)
(* record in at least one field value, and as unchanged otherwise.  Stated *)
(* for batches without a repeated id, on the records as the store persists *)
(* them (all fields in their serialized form).                             *)
(***************************************************************************)
C6_UpdatedIffDiffers ==
  (Merged /\ DistinctIds) =>
    \A store \in { Store }, before \in { Before } :
      /\ \A id \in ExistingIds(before) : id \in DOMAIN store
      /\ last.result[2] =
           Cardinality({ id \in ExistingIds(before) : store[id] # before[id] })
      /\ last.result[3] =
           Cardinality({ id \in ExistingIds(before) : store[id] = before[id] })

(***************************************************************************)
(* C7.  With mark_missing_inactive enabled, after merge_listings every     *)
(* stored record whose id was not in the batch and whose stored is_active  *)
(* was "true" has is_active = "false" and last_seen = the call's "now";    *)
(* records already inactive and absent from the batch are not modified.    *)
(***************************************************************************)
C7_MissingMarkedInactive ==
  (Merged /\ last.mark_missing_inactive) =>
    \A store \in { Store }, before \in { Before } :
      \A id \in MissingIds(before) :
        /\ id \in DOMAIN store
        /\ IF before[id]["is_active"] = PyStr("true")
           THEN /\ store[id]["is_active"] = PyStr("false")
                /\ store[id]["last_seen"] = PyStr(last.now)
           ELSE store[id] = before[id]

\* One call that finds an active and an inactive record, both missing from
\* its batch, at a time later than their last_seen.
C7_Witness ==
  /\ Merged
  /\ last.mark_missing_inactive
  /\ \E store \in { Store }, before \in { Before } :
       /\ \E id \in MissingIds(before) :
            /\ before[id]["is_active"] = PyStr("true")
            /\ before[id]["last_seen"] # PyStr(last.now)
            /\ store[id]["is_active"] = PyStr("false")
       /\ \E id \in MissingIds(before) :
            /\ before[id]["is_active"] = PyStr("false")
            /\ before[id]["last_seen"] # PyStr(last.now)
            /\ store[id] = before[id]

(***************************************************************************)
(* C8.  With mark_missing_inactive disabled, merge_listings leaves every   *)
(* stored record whose id is not in the batch unchanged in every persisted *)
(* field, is_active and last_seen included.                                *)
(***************************************************************************)
C8_MissingUntouchedByDefault ==
  (Merged /\ ~last.mark_missing_inactive) =>
    \A store \in { Store }, before \in { Before } :
      \A id \in MissingIds(before) : id \in DOMAIN store /\ store[id] = before[id]

\* A call with a non-empty batch, at a later time, that leaves an active
\* record of another id as it was.
C8_Witness ==
  /\ Merged
  /\ ~last.mark_missing_inactive
  /\ Len(Batch) > 0
  /\ \E store \in { Store }, before \in { Before } :
       \E id \in MissingIds(before) :
         /\ before[id]["is_active"] = PyStr("true")
         /\ before[id]["last_seen"] # PyStr(last.now)
         /\ store[id] = before[id]

(***************************************************************************)
(* C9.  The set of ids readable from the store never loses a member by a   *)
(* merge_listings call, with either setting of mark_missing_inactive: only *)
(* clear() removes records.                                                *)
(***************************************************************************)
C9_OnlyClearRemoves ==
  Merged => DOMAIN Before \subseteq DOMAIN Store

\* A merge with mark_missing_inactive that marked a missing record inactive
\* and kept it.
C9_Witness ==
  /\ Merged
  /\ last.mark_missing_inactive
  /\ \E store \in { Store }, before \in { Before } :
       \E id \in MissingIds(before) :
         /\ before[id]["is_active"] = PyStr("true")
         /\ id \in DOMAIN store
         /\ store[id]["is_active"] = PyStr("false")

(***************************************************************************)
(* C10.  In every state reachable by merge_listings calls, each persisted  *)
(* record has a non-empty id and no two persisted records share an id.     *)
(***************************************************************************)
C10_IdsNonEmptyAndUnique ==
  \A rows \in { FileRows } :
    \A r \in 1..Len(rows) :
      /\ rows[r]["id"] # PyStr("")
      /\ \A q \in 1..Len(rows) : rows[q]["id"] = rows[r]["id"] => q = r

(***************************************************************************)
(* C11.  In every state reachable by merge_listings calls made at          *)
(* non-decreasing times, every persisted record has first_seen <=          *)
(* last_seen.                                                              *)
(***************************************************************************)
C11_FirstSeenBeforeLastSeen ==
  \A rows \in { FileRows } :
    \A r \in 1..Len(rows) :
      stamp_leq(rows[r]["first_seen"].v, rows[r]["last_seen"].v)

\* A record inserted by one call and seen again by a call at a later time.
C11_Witness ==
  /\ Merged
  /\ \E rows \in { FileRows } :
       \E r \in 1..Len(rows) :
         /\ rows[r]["id"].v \in BatchIds
         /\ rows[r]["first_seen"] # rows[r]["last_seen"]
         /\ stamp_leq(rows[r]["first_seen"].v, rows[r]["last_seen"].v)

(***************************************************************************)
(* C12.  After every merge_listings call the persisted table is a header   *)
(* row with the fixed column order (id, url, title, deal_type, price,      *)
(* price_per_m2, area_m2, rooms, floor, total_floors, location, county,    *)
(* city, district, property_type, build_year, condition, first_seen,       *)
(* last_seen, is_active) followed by exactly one row per stored id (the    *)
(* ids the store held and the ids of the batch), the rows sorted by id     *)
(* ascending (ids are strings), with missing values written as the empty   *)
(* string.                                                                 *)
(***************************************************************************)
C12_PersistedTable ==
  Merged =>
    \A before \in { Before }, dicts \in { BatchDicts } :
      /\ csv.exists
      /\ csv.header =
           << "id", "url", "title", "deal_type", "price", "price_per_m2",
              "area_m2", "rooms", "floor", "total_floors", "location", "county",
              "city", "district", "property_type", "build_year", "condition",
              "first_seen", "last_seen", "is_active" >>
      /\ \A r \in 1..Len(csv.rows) : DOMAIN csv.rows[r] = Range(csv.header)
      /\ { csv.rows[r]["id"] : r \in 1..Len(csv.rows) } = DOMAIN before \cup BatchIds
      /\ \A r, q \in 1..Len(csv.rows) :
           r < q => str_less(csv.rows[r]["id"], csv.rows[q]["id"])
      /\ \A r \in 1..Len(csv.rows), col \in MergedColumns :
           LET id == csv.rows[r]["id"]
           IN  (id \in NewIds(before) /\ Incoming(dicts, id, col) = { None })
                 => csv.rows[r][col] = ""

\* A table of two rows, "10" before "9", the second inserted by this call
\* from a listing without a price.
C12_Witness ==
  /\ Merged
  /\ Len(csv.rows) = 2
  /\ csv.rows[1]["id"] = "10"
  /\ csv.rows[2]["id"] = "9"
  /\ "9" \in NewIds(Before)
  /\ Incoming(BatchDicts, "9", "price") = { None }
  /\ csv.rows[2]["price"] = ""

(***************************************************************************)
(* C13.  The store record is a lossless persisted view of the merged       *)
(* Listing: after merge_listings, every field of a Listing of the batch    *)
(* (building_material, energy_certificate and status included) is a field  *)
(* of the record read_all returns for its id, and a value the batch gave   *)
(* for a new id is there in its serialized form.                           *)
(***************************************************************************)
C13_EveryFieldRecoverable ==
  Merged =>
    \A store \in { Store }, before \in { Before }, dicts \in { BatchDicts } :
      \A i \in 1..Len(dicts) :
        LET id == Batch[i].id
        IN  id # "" =>
              /\ id \in DOMAIN store
              /\ \A key \in DOMAIN dicts[i] \ { "first_seen", "last_seen" } :
                   /\ key \in DOMAIN store[id]
                   /\ \A value \in Incoming(dicts, id, key) :
                        (id \in NewIds(before) /\ Incoming(dicts, id, key) = { value }
                           /\ value # None)
                          => store[id][key] = PyStr(value.v)

(***************************************************************************)
(* C14.  After any sequence of merge_listings/clear operations, get_stats  *)
(* returns total = the number of persisted records, active = the number of *)
(* those whose is_active is "true" and inactive = total - active; on a     *)
(* store that does not exist or was cleared all three are 0.               *)
(***************************************************************************)
C14_StatsCountPersisted ==
  last.op = "stats" =>
    \A rows \in { FileRows } :
      /\ last.result.total = Len(rows)
      /\ last.result.active =
           Cardinality({ r \in 1..Len(rows) : rows[r]["is_active"] = PyStr("true") })
      /\ last.result.inactive = last.result.total - last.result.active
      /\ ~csv.exists =>
           last.result = [ total |-> 0, active |-> 0, inactive |-> 0 ]

(***************************************************************************)
(* C15.  If writing the table fails or is interrupted during               *)
(* merge_listings, after reconciliation has been computed, the persisted   *)
(* table is exactly what it was before the call: never empty, truncated or *)
(* partially written.                                                      *)
(***************************************************************************)
C15_FailedWriteKeepsTable ==
  last.op = "merge_failed" => csv = last.before

(***************************************************************************)
(* C16.  parse_search_results returns, in document order, exactly the      *)
(* listing containers with a non-empty id that are not positioned after    *)
(* the first recommended-section heading of the raw document: every        *)
(* container positioned after that heading is excluded, also when its id   *)
(* occurs earlier in the document, and when no heading phrase occurs every *)
(* container is included.                                                  *)
(***************************************************************************)
C16_RecommendedExcluded ==
  parsed.op = "parse_search_results" =>
    LET html == parsed.input
        headings == { i \in 1..Len(html) :
                        /\ html[i].kind = "heading"
                        /\ lower(html[i].text) \in Range(RECOMMENDED_SECTION_MARKERS) }
        before_heading(i) == \A h \in headings : i < h
        ids == [ i \in 1..Len(html) |->
                   IF html[i].kind = "article" /\ before_heading(i)
                   THEN html[i].id ELSE "" ]
    IN  [ k \in 1..Len(parsed.result) |-> parsed.result[k].id ]
          = SelectSeq(ids, LAMBDA id : id # "")

(***************************************************************************)
(* C17.  parse_listing_page yields is_active = false and status =          *)
(* "reserved" exactly when (a) the raw document contains "(Broneeritud)"   *)
(* or "(Reserved)", case-insensitively, or (b) the word "broneeritud"      *)
(* occurs inside a status/overlay element or inside any table header cell; *)
(* in every other case it yields is_active = true and status = "active".   *)
(***************************************************************************)
C17_ReservedExactlyWhenMarked ==
  parsed.op = "parse_listing_page" =>
    LET elements == parsed.input.elements
        listing == parsed.result[1]
        reserved ==
          \E i \in 1..Len(elements) :
            \/ contains(elements[i].text, << "(", "broneeritud", ")" >>)
            \/ contains(elements[i].text, << "(", "reserved", ")" >>)
            \/ /\ elements[i].kind \in { "status", "th" }
               /\ contains(elements[i].text, << "broneeritud" >>)
    IN  /\ listing.is_active = ~reserved
        /\ listing.status = PyStr(IF reserved THEN "reserved" ELSE "active")

(***************************************************************************)
(* C18.  For every extracted listing (search-results and detail mode),     *)
(* price_per_m2 is the explicitly stated per-area value when one was       *)
(* found; otherwise it is round(price / area_m2, 2) whenever price and     *)
(* area_m2 are both present (price = 0 included) and area_m2 > 0;          *)
(* otherwise it is absent.                                                 *)
(***************************************************************************)
C18_PricePerM2 ==
  \A listings \in { Extracted } :
    \A i \in 1..Len(listings) :
      LET listing == listings[i]
          \* the value of the card's small element; a detail page states none
          stated == IF parsed.op = "parse_search_results"
                       /\ Len(listings) = Len(parsed.input)
                    THEN normalize_area(parsed.input[i].small_text)
                    ELSE << >>
      IN  (parsed.op = "parse_search_results" => Len(listings) = Len(parsed.input))
            => listing.price_per_m2 =
                 IF stated # << >> THEN cell_float(stated)
                 ELSE IF /\ listing.price # None
                         /\ listing.area_m2 # None
                         /\ hundredths_of(listing.area_m2) > 0
                      THEN cell_float(<< round_2(int_of(listing.price),
                                                 hundredths_of(listing.area_m2)) >>)
                      ELSE None

(***************************************************************************)
(* C19.  Every Listing produced by the extractor (parse_search_results or  *)
(* parse_listing_page), for any input text, has floor <= total_floors      *)
(* whenever both are present.                                              *)
(***************************************************************************)
C19_FloorWithinTotal ==
  \A listings \in { Extracted } :
    \A i \in 1..Len(listings) :
      (listings[i].floor # None /\ listings[i].total_floors # None)
        => int_of(listings[i].floor) <= int_of(listings[i].total_floors)

(***************************************************************************)
(* C20.  extract_listing_id tries its patterns in a fixed priority order:  *)
(* a hyphen-digits suffix immediately before ".html" wins; only if there   *)
(* is none is a bare numeric path segment before ".html" used; only if     *)
(* there is none either is an "id=" query parameter used; if nothing       *)
(* matches the result is absent.  For a URL that matches several patterns  *)
(* the result is that of the highest-priority one (of its leftmost         *)
(* occurrence).                                                            *)
(***************************************************************************)
C20_PatternPriority ==
  parsed.op = "extract_listing_id" =>
    LET url == parsed.input
        \* digits url[i+1..k] right after lead at i and right before ".html"
        BeforeHtml(lead) ==
          { ik \in (1..Len(url)) \X (1..Len(url)) :
              /\ url[ik[1]] = lead
              /\ ik[1] < ik[2] /\ ik[2] < Len(url)
              /\ \A j \in (ik[1] + 1)..ik[2] : url[j] \in Digits
              /\ url[ik[2] + 1] = ".html" }
        \* all the digits url[i+2..k] that follow "?id=" or "&id=" at i
        IdParam ==
          { ik \in (1..Len(url)) \X (1..Len(url)) :
              /\ url[ik[1]] \in { "?", "&" }
              /\ ik[1] + 1 < ik[2]
              /\ url[ik[1] + 1] = "id="
              /\ \A j \in (ik[1] + 2)..ik[2] : url[j] \in Digits
              /\ (ik[2] < Len(url) => url[ik[2] + 1] \notin Digits) }
        Leftmost(matches) ==
          CHOOSE ik \in matches : \A other \in matches : ik[1] <= other[1]
        Group(ik, skip) == PyStr(join(SubSeq(url, ik[1] + skip, ik[2])))
    IN  parsed.result =
          IF BeforeHtml("-") # {} THEN Group(Leftmost(BeforeHtml("-")), 1)
          ELSE IF BeforeHtml("/") # {} THEN Group(Leftmost(BeforeHtml("/")), 1)
          ELSE IF IdParam # {} THEN Group(Leftmost(IdParam), 2)
          ELSE None

\* "/2.html-1.html": the path-segment pattern matches first in the URL, the
\* slug suffix matches later and gives the id.
C20_Witness ==
  /\ parsed.op = "extract_listing_id"
  /\ parsed.input = << "/", "2", ".html", "-", "1", ".html" >>
  /\ parsed.result = PyStr("1")

(***************************************************************************)
(* C21.  For every price string made of digits, spaces, non-breaking       *)
(* spaces, commas and a currency symbol, normalize_price returns the       *)
(* integer whose decimal digits are the string's digit characters in       *)
(* order, and absent when the string is empty or holds no digit.           *)
(***************************************************************************)
\* The integer read off the digit characters of text, left to right.
RECURSIVE digits_value(_, _)
digits_value(text, value) ==
  IF Len(text) = 0 THEN value
  ELSE IF Head(text) \in Digits
       THEN digits_value(Tail(text),
                         10 * value + (CHOOSE n \in 0..9 : ToString(n) = Head(text)))
       ELSE digits_value(Tail(text), value)

C21_PriceIsItsDigits ==
  parsed.op = "normalize_price" =>
    IF Range(parsed.input) \cap Digits = {}
    THEN parsed.result = << >>
    ELSE parsed.result = << digits_value(parsed.input, 0) >>

C21_Witness ==
  /\ parsed.op = "normalize_price"
  /\ parsed.input = << "1", NBSP, "0", "€" >>
  /\ parsed.result = << 10 >>

(***************************************************************************)
(* C22.  In both extraction modes, a condition or building-material text   *)
(* that matches no entry of the phrase table is in the Listing as the      *)
(* lowercased, trimmed input text: on a search page the text stated in the *)
(* card's excerpt, on a detail page the text of the meta table's row.      *)
(***************************************************************************)
\* The lowercased, trimmed text as a str.
Preserved(text) == PyStr(join(strip(lower_text(text))))

\* No search term of the excerpt's table occurs in the text.
NoSearchTerm(table, text) == \A k \in 1..Len(table) : ~contains(text, table[k][1])

\* The text is no key of the detail page's table.
NoMapping(mappings, text) ==
  \A entry \in mappings : entry[1] # strip(lower_text(text))

C22_CardPreserves ==
  (parsed.op = "parse_search_results" /\ Len(parsed.input) = 1
     /\ Len(parsed.result) = 1 /\ parsed.input[1].kind = "article") =>
    \A floor_text \in FloorTexts, material_text \in MaterialTexts,
       condition_text \in ConditionTexts :
      parsed.input[1].excerpt_text = Excerpt(floor_text, material_text, condition_text) =>
        /\ NoSearchTerm(EXCERPT_CONDITIONS, condition_text) =>
             parsed.result[1].condition = Preserved(condition_text)
        /\ NoSearchTerm(EXCERPT_MATERIALS, material_text) =>
             parsed.result[1].building_material = Preserved(material_text)

C22_PagePreserves ==
  parsed.op = "parse_listing_page" =>
    /\ \A key \in { "seisukord", "condition" } \cap DOMAIN parsed.input.meta :
         NoMapping(CONDITION_MAPPINGS, parsed.input.meta[key]) =>
           parsed.result[1].condition = Preserved(parsed.input.meta[key])
    /\ \A key \in { "ehitusmaterjal", "building material" } \cap DOMAIN parsed.input.meta :
         NoMapping(MATERIAL_MAPPINGS, parsed.input.meta[key]) =>
           parsed.result[1].building_material = Preserved(parsed.input.meta[key])

C22_UnrecognizedTextPreserved == C22_CardPreserves /\ C22_PagePreserves

(***************************************************************************)
(* C23.  For every Listing returned by parse_search_results, property_type *)
(* is unset or one of apartment, house, land, commercial, room, whatever   *)
(* class names the container carries.                                      *)
(***************************************************************************)
PropertyTypes == { "apartment", "house", "land", "commercial", "room" }

C23_PropertyTypeInEnum ==
  parsed.op = "parse_search_results" =>
    \A i \in 1..Len(parsed.result) :
      \/ parsed.result[i].property_type = None
      \/ parsed.result[i].property_type \in { PyStr(type) : type \in PropertyTypes }

(***************************************************************************)
(* C28.  For every merge_listings call, added + updated + unchanged is the *)
(* number of listings in the batch, and the number of stored ids grows by  *)
(* exactly the number of distinct ids of the batch that were not stored.   *)
(***************************************************************************)
C28_CountsAndGrowth ==
  Merged =>
    \A store \in { Store }, before \in { Before } :
      /\ last.result[1] + last.result[2] + last.result[3] = Len(Batch)
      /\ Cardinality(DOMAIN store) =
           Cardinality(DOMAIN before) + Cardinality(NewIds(before))

WriterIds(w) ==
  { merging.writers[w].new_listings[i].id :
      i \in 1..Len(merging.writers[w].new_listings) }

BothDone == \A w \in Writers : merging.writers[w].pc = "done"

\* Both read before either writes; `earlier` writes first.
Interleaved(earlier, later) ==
  /\ BothDone
  /\ earlier # later
  /\ { merging.steps[1], merging.steps[2] } =
       { << "read", earlier >>, << "read", later >> }
  /\ merging.steps[3] = << "write", earlier >>
  /\ merging.steps[4] = << "write", later >>

\* `first` returns before `second` starts.
Serialized(first, second) ==
  /\ BothDone
  /\ first # second
  /\ merging.steps = << << "read", first >>, << "write", first >>,
                        << "read", second >>, << "write", second >> >>

C27_LostUpdate ==
  \A earlier, later \in Writers :
    Interleaved(earlier, later) =>
      \A store \in { Store }, found \in { read_all(merging.at_start) },
         call \in { merging.writers[later] } :
        /\ csv = merge_listings(merging.at_start, call.new_listings, call.now,
                                call.mark_missing_inactive).written
        /\ \A id \in WriterIds(earlier) \ (WriterIds(later) \cup DOMAIN found) :
             id \notin DOMAIN store
        /\ \A id \in (WriterIds(earlier) \cap DOMAIN found) \ WriterIds(later) :
             /\ id \in DOMAIN store
             /\ ~call.mark_missing_inactive => store[id] = found[id]

C27_SerializedKeepsBoth ==
  \A first, second \in Writers :
    Serialized(first, second) =>
      \A id \in WriterIds(first) \cup WriterIds(second) : id \in DOMAIN Store

C27_InterleavedAndSerialized == C27_LostUpdate /\ C27_SerializedKeepsBoth

(***************************************************************************)
(* What the claims about the search command speak of.                      *)
(***************************************************************************)
\* The pass of the loop found its fetch blocked or answered with a status
\* other than 200.
FetchFailed(pass) == pass.is_blocked \/ pass.status_code # 200

ListingIds(listings) == { listings[i].id : i \in 1..Len(listings) }

\* The listings of the first k passes of the loop, in order.
RECURSIVE Collected(_, _)
Collected(fetched, k) ==
  IF k = 0 THEN << >> ELSE Collected(fetched, k - 1) \o fetched[k].listings

(***************************************************************************)
(* C24.  In a search run the extractor and then the store's merge are      *)
(* invoked once for each successfully fetched page: when page k + 1 is     *)
(* fetched the listings of page k are persisted, and a run that has        *)
(* returned has merged once for every page that gave listings.             *)
(***************************************************************************)
C24_MergePerPage ==
  /\ \A store \in { Store } :
       \A k \in 1..(Len(search.fetched) - 1) :
         ListingIds(search.fetched[k].listings) \subseteq DOMAIN store
  /\ search.pc = "returned" =>
       Len(search.merged) =
         Cardinality({ k \in 1..Len(search.fetched) :
                         Len(search.fetched[k].listings) > 0 })

(***************************************************************************)
(* C25.  The search loop fetches the pages 1, 2, ... in increasing order,  *)
(* at most the requested number of them, and no page is fetched after a    *)
(* page whose extracted listing set is empty; a loop that met neither such *)
(* a page nor a failed fetch fetches every requested page.                 *)
(***************************************************************************)
C25_PagesInOrderUntilEmpty ==
  /\ \A k \in 1..Len(search.fetched) : search.fetched[k].page = k
  /\ Len(search.fetched) <= search.pages
  /\ \A k \in 1..(Len(search.fetched) - 1) : Len(search.fetched[k].listings) > 0
  /\ (search.pc \in { "after_loop", "returned" } /\ Len(search.errors) = 0
        /\ ~search.dry_run
        /\ \A k \in 1..Len(search.fetched) :
             ~FetchFailed(search.fetched[k]) /\ Len(search.fetched[k].listings) > 0) =>
       Len(search.fetched) = search.pages

\* Three pages were asked for and the second one had no listings.
C25_Witness ==
  /\ search.pc = "returned"
  /\ search.pages = 3
  /\ Len(search.fetched) = 2
  /\ Len(search.fetched[1].listings) > 0
  /\ ~FetchFailed(search.fetched[2])
  /\ Len(search.fetched[2].listings) = 0

(***************************************************************************)
(* C26.  If the validation of the search criteria reports an error, and it *)
(* does so for a deal type that is neither sale nor rent and for a minimum *)
(* above its maximum of price, rooms or area, the search command returns 1 *)
(* with no page fetched, parsed or merged and the store as it was.         *)
(***************************************************************************)
Inverted(min, max) == \E m, n \in 1..2 : min = << m >> /\ max = << n >> /\ n < m

C26_InvalidCriteriaStopSearch ==
  search.pc # "idle" =>
    /\ Len(search.errors) > 0 <=>
         \/ search.criteria.deal_type \notin { "sale", "rent" }
         \/ Inverted(search.criteria.price_min, search.criteria.price_max)
         \/ Inverted(search.criteria.rooms_min, search.criteria.rooms_max)
         \/ Inverted(search.criteria.area_min, search.criteria.area_max)
         \/ search.criteria.page < 1
    /\ Len(search.errors) > 0 =>
         /\ search.pc = "returned"
         /\ search.code = 1
         /\ search.fetched = << >>
         /\ search.all_listings = << >>
         /\ search.merged = << >>
         /\ csv = search.at_start

\* A search with an inverted price range on a store that holds records.
C26_Witness ==
  /\ search.pc = "returned"
  /\ search.code = 1
  /\ Inverted(search.criteria.price_min, search.criteria.price_max)
  /\ search.criteria.deal_type = "sale"
  /\ Len(csv.rows) > 0
  /\ csv = search.at_start

(***************************************************************************)
(* C30.  If the fetch of page 1 is blocked or answered with a status other *)
(* than 200, the search command returns 1 without a merge and the store is *)
(* as it was; if this happens to a later page k, no further page is        *)
(* fetched, the listings of the pages 1..k-1 are merged in one call and    *)
(* the command returns 0.  merge_listings is never called with an empty    *)
(* list.                                                                   *)
(***************************************************************************)
C30_FetchFailure ==
  /\ \A k \in 1..Len(search.fetched) :
       FetchFailed(search.fetched[k]) =>
         /\ k = Len(search.fetched)
         /\ search.pc # "loop"
         /\ k = 1 => /\ search.pc = "returned"
                     /\ search.code = 1
                     /\ search.merged = << >>
                     /\ csv = search.at_start
         /\ (k > 1 /\ search.pc = "returned") =>
              /\ search.code = 0
              /\ search.merged = << Collected(search.fetched, k - 1) >>
              /\ ListingIds(Collected(search.fetched, k - 1)) \subseteq DOMAIN Store
  /\ \A i \in 1..Len(search.merged) : Len(search.merged[i]) > 0

\* The second page is blocked after a first page with listings.
C30_Witness ==
  /\ search.pc = "returned"
  /\ search.code = 0
  /\ Len(search.fetched) = 2
  /\ search.fetched[2].is_blocked
  /\ Len(search.merged) = 1
  /\ search.merged[1] = search.fetched[1].listings

====
